---- MODULE Spec2Model ----
(***************************************************************************)
(* Model of the xdiff / xreq request-and-diff tool.                        *)
(*                                                                         *)
(*   - cli-utils/src/lib.rs   parse_key_val                                *)
(*   - requester/src/req.rs   RequestContext (update, serde attributes),   *)
(*                            RequestConfig::try_load                      *)
(*   - requester/src/diff.rs  DiffConfig::try_load, DiffContext            *)
(*                            (diff_response, request_to_string),          *)
(*                            build_diff                                   *)
(*                                                                         *)
(* Strings are sequences of one-character strings where the code looks at  *)
(* characters, and atoms (TLA+ strings) where it only compares them.       *)
(* Each component has its own specification (SpecParse, SpecUpdate, ...);  *)
(* the variables of the other components stay at Idle.                     *)
(***************************************************************************)
EXTENDS Integers, Sequences, FiniteSets, TLC

\* parse_key_val: the command-line argument s and its Result<KeyVal>
VARIABLES arg, parsed

\* RequestContext::update: the context before the call (ctx0), the overrides
\* (values) and the outcome with the context as the call leaves it (updated)
VARIABLES ctx0, values, updated

\* DiffContext::diff_response: self.response.skip_headers, the two responses,
\* the canonical texts text1/text2 (texts) and the DiffResult (result)
VARIABLES skip_headers, res1, res2, texts, result

\* build_diff: the lines of old and new, and the buffer it returns
VARIABLES old, new, rendered

\* try_load: the parsed YAML document of the config file and the outcome
VARIABLES file, loaded

\* serde round trip: a DiffContext, its serialized form and what parsing
\* that form gives
VARIABLES profile, yaml, reparsed

\* DiffContext::diff and RequestContext::send: the profile being run (job),
\* where the run stands (pc), the requests handed to the HTTP client so far
\* (issued), the responses received (got) and how the run ended (outcome)
VARIABLES job, pc, issued, got, outcome

vars == <<arg, parsed, ctx0, values, updated, skip_headers, res1, res2, texts, result,
          old, new, rendered, file, loaded, profile, yaml, reparsed,
          job, pc, issued, got, outcome>>

sendVars == <<job, pc, issued, got, outcome>>

loadVars == <<file, loaded>>

serdeVars == <<profile, yaml, reparsed>>

renderVars == <<old, new, rendered>>

parseVars == <<arg, parsed>>

updateVars == <<ctx0, values, updated>>

diffVars == <<skip_headers, res1, res2, texts, result>>

Idle == [st |-> "idle"]

\* the variables of a component that is not running
ParseUnused == arg = Idle /\ parsed = Idle

UpdateUnused == ctx0 = Idle /\ values = Idle /\ updated = Idle

DiffUnused ==
    /\ skip_headers = Idle /\ res1 = Idle /\ res2 = Idle
    /\ texts = Idle /\ result = Idle

RenderUnused == old = Idle /\ new = Idle /\ rendered = Idle

LoadUnused == file = Idle /\ loaded = Idle

SerdeUnused == profile = Idle /\ yaml = Idle /\ reparsed = Idle

SendUnused ==
    /\ job = Idle /\ pc = Idle /\ issued = Idle
    /\ got = Idle /\ outcome = Idle


(***************************************************************************)
(* Generic helpers                                                         *)
(***************************************************************************)
SeqsUpTo(S, n) == UNION {[1..k -> S] : k \in 0..n}

Range(f) == {f[i] : i \in DOMAIN f}

(***************************************************************************)
(* cli-utils: parse_key_val                                                *)
(***************************************************************************)
MaxArgLen == 4

\* the characters an argument is made of: two ASCII letters, a digit, the
\* separator, the two prefixes of the code and '#', the prefix the doc
\* comment of KeyValType names for headers
Chars == {"a", "Z", "1", "=", "@", "%", "#"}

\* 'A'..='Z' | 'a'..='z'
AsciiLetters == {"a", "Z"}

Args == SeqsUpTo(Chars, MaxArgLen)

Ok(v) == [st |-> "ok", val |-> v]

Err(m) == [st |-> "err", msg |-> m]

KeyVal(kv_type, key, val) == [kv_type |-> kv_type, key |-> key, val |-> val]

\* index of the first occurrence of c in s, 0 when there is none
IndexOf(s, c) ==
    IF \E i \in 1..Len(s) : s[i] = c
    THEN CHOOSE i \in 1..Len(s) : s[i] = c /\ \A j \in 1..(i - 1) : s[j] # c
    ELSE 0

\* index of the last occurrence of c in s, 0 when there is none
LastIndexOf(s, c) ==
    IF \E i \in 1..Len(s) : s[i] = c
    THEN CHOOSE i \in 1..Len(s) : s[i] = c /\ \A j \in (i + 1)..Len(s) : s[j] # c
    ELSE 0

\* str::splitn(2, '='): at most two parts, cut at the first '='
splitn2(input) ==
    LET i == IndexOf(input, "=") IN
    IF i = 0 THEN <<input>>
    ELSE <<SubSeq(input, 1, i - 1), SubSeq(input, i + 1, Len(input))>>

\* a slip: the cut is made at the last '=' (rsplitn)
rsplitn2(input) ==
    LET i == LastIndexOf(input, "=") IN
    IF i = 0 THEN <<input>>
    ELSE <<SubSeq(input, 1, i - 1), SubSeq(input, i + 1, Len(input))>>

\* a slip: the value is cut at the last '=' instead of the first
parse_key_val_rsplit(s) ==
    IF s = <<>> THEN Err("empty key-value pair is invalid")
    ELSE LET c == Head(s) IN
         IF c \notin ({"%", "@"} \cup AsciiLetters) THEN Err("invalid key val pair")
         ELSE LET kv_type == CASE c = "%" -> "Header"
                               [] c = "@" -> "Body"
                               [] OTHER   -> "Query"
                  input == IF c \in {"%", "@"} THEN Tail(s) ELSE s
                  parts == rsplitn2(input)
              IN IF Len(parts) < 2 THEN Err("missing value")
                 ELSE Ok(KeyVal(kv_type, parts[1], parts[2]))

\* a slip: a leading digit is taken for a query key as well
parse_key_val_alnum(s) ==
    IF s = <<>> THEN Err("empty key-value pair is invalid")
    ELSE LET c == Head(s) IN
         IF c \notin ({"%", "@", "1"} \cup AsciiLetters) THEN Err("invalid key val pair")
         ELSE LET kv_type == CASE c = "%" -> "Header"
                               [] c = "@" -> "Body"
                               [] OTHER   -> "Query"
                  input == IF c \in {"%", "@"} THEN Tail(s) ELSE s
                  parts == splitn2(input)
              IN IF Len(parts) < 2 THEN Err("missing value")
                 ELSE Ok(KeyVal(kv_type, parts[1], parts[2]))

parse_key_val(s) ==
    IF s = <<>> THEN Err("empty key-value pair is invalid")
    ELSE LET c == Head(s) IN
         IF c \notin ({"%", "@"} \cup AsciiLetters) THEN Err("invalid key val pair")
         ELSE LET kv_type == CASE c = "%" -> "Header"
                               [] c = "@" -> "Body"
                               [] OTHER   -> "Query"
                  input == IF c \in {"%", "@"} THEN Tail(s) ELSE s
                  parts == splitn2(input)
              IN IF Len(parts) < 2 THEN Err("missing value")
                 ELSE Ok(KeyVal(kv_type, parts[1], parts[2]))

InitParse ==
    /\ arg \in Args
    /\ parsed = Idle
    /\ UpdateUnused /\ DiffUnused /\ RenderUnused /\ LoadUnused /\ SerdeUnused /\ SendUnused

\* clap's value_parser calls parse_key_val on one -e argument
ParseArg ==
    /\ parsed.st = "idle"
    /\ parsed' = parse_key_val(arg)
    /\ UNCHANGED <<arg, updateVars, diffVars, renderVars, loadVars, serdeVars, sendVars>>

NextParse == ParseArg

SpecParse == InitParse /\ [][NextParse]_vars

\* the argument without its one-character prefix, as the claims describe it
Stripped(s) == IF s # <<>> /\ Head(s) \in {"@", "%"} THEN Tail(s) ELSE s

JNull == [t |-> "null"]

JBool(b) == [t |-> "bool", b |-> b]

JNum(n) == [t |-> "number", n |-> n]

JStr(s) == [t |-> "string", s |-> s]

JArr(a) == [t |-> "array", a |-> a]

\* Value::Object(Map): m is a function from the keys present to their values
JObj(m) == [t |-> "object", m |-> m]

EmptyMap == [k \in {} |-> JNull]

\* Option<T>
None == [t |-> "None"]

Some(v) == [t |-> "Some", v |-> v]

Panic(m) == [st |-> "panic", msg |-> m]

\* Value::is_object
is_object(v) == v.t = "object"

\* Value::is_null
is_null(v) == v.t = "null"

\* Map::insert / the assignment through IndexMut
MapInsert(m, key, value) == [k \in DOMAIN m \cup {key} |-> IF k = key THEN value ELSE m[k]]

\* `v[key] = value`, serde_json's IndexMut<&str> for Value: Null becomes an
\* empty object first, an object gets the entry, anything else panics
IndexAssign(v, key, value) ==
    IF is_null(v) THEN Ok(JObj(MapInsert(EmptyMap, key, value)))
    ELSE IF is_object(v) THEN Ok(JObj(MapInsert(v.m, key, value)))
    ELSE Panic("cannot access key in JSON value")

\* HeaderName::from_str: a non-empty sequence of token characters, stored in
\* lower case
TokenChars == {"a", "z", "Z", "1", "#", "%"}

Lower(c) == IF c = "Z" THEN "z" ELSE c

HeaderNameFromStr(key) ==
    IF key = <<>> \/ \E i \in 1..Len(key) : key[i] \notin TokenChars
    THEN Err("invalid HTTP header name")
    ELSE Ok([i \in 1..Len(key) |-> Lower(key[i])])

\* HeaderValue::from_str: no control character other than tab
ControlChars == {"\n"}

HeaderValueFromStr(val) ==
    IF \E i \in 1..Len(val) : val[i] \in ControlChars
    THEN Err("failed to parse header value")
    ELSE Ok(val)

\* HeaderMap as the sequence of its (name, value) entries
HeaderNames(h) == {h[i][1] : i \in 1..Len(h)}

\* HeaderMap::insert: the name ends up with exactly this one value
HeaderInsert(h, name, value) ==
    IF name \notin HeaderNames(h) THEN Append(h, <<name, value>>)
    ELSE LET first == CHOOSE i \in 1..Len(h) :
                          h[i][1] = name /\ \A j \in 1..(i - 1) : h[j][1] # name
             keep == SelectSeq([i \in 1..Len(h) |-> <<i, h[i]>>],
                               LAMBDA e : e[2][1] # name \/ e[1] = first)
         IN [i \in 1..Len(keep) |->
                IF keep[i][1] = first THEN <<name, value>> ELSE keep[i][2]]

(***************************************************************************)
(* requester: RequestContext::update                                       *)
(***************************************************************************)
MaxOverrides == 2

RequestContext(method, url, params, headers, body, user_agent) ==
    [method |-> method, url |-> url, params |-> params, headers |-> headers,
     body |-> body, user_agent |-> user_agent]

\* a slip: a second value for a key that holds a string is accumulated into
\* an array, the way from_str treats a repeated query key
apply_query_accumulate(self, v) ==
    IF /\ is_object(self.params)
       /\ v.key \in DOMAIN self.params.m
       /\ self.params.m[v.key].t = "string"
    THEN Ok([self EXCEPT !.params =
                JObj(MapInsert(self.params.m, v.key,
                               JArr(<<self.params.m[v.key], JStr(v.val)>>)))])
    ELSE LET r == IndexAssign(self.params, v.key, JStr(v.val)) IN
         IF r.st = "ok" THEN Ok([self EXCEPT !.params = r.val]) ELSE r

\* KeyValType::Query arm
apply_query(self, v) ==
    LET r == IndexAssign(self.params, v.key, JStr(v.val)) IN
    IF r.st = "ok" THEN Ok([self EXCEPT !.params = r.val]) ELSE r

\* KeyValType::Header arm
\* a slip: HeaderMap::append in place of insert
apply_header_append(self, v) ==
    LET name == HeaderNameFromStr(v.key) IN
    IF name.st = "err" THEN name
    ELSE LET value == HeaderValueFromStr(v.val) IN
         IF value.st = "err" THEN value
         ELSE Ok([self EXCEPT !.headers = Append(self.headers, <<name.val, value.val>>)])

apply_header(self, v) ==
    LET name == HeaderNameFromStr(v.key) IN
    IF name.st = "err" THEN name
    ELSE LET value == HeaderValueFromStr(v.val) IN
         IF value.st = "err" THEN value
         ELSE Ok([self EXCEPT !.headers = HeaderInsert(self.headers, name.val, value.val)])

\* a slip: an absent body is created by the override
apply_body_create(self, v) ==
    LET r == IndexAssign(IF self.body.t = "Some" THEN self.body.v ELSE JNull,
                         v.key, JStr(v.val)) IN
    IF r.st = "ok" THEN Ok([self EXCEPT !.body = Some(r.val)]) ELSE r

\* KeyValType::Body arm
apply_body(self, v) ==
    IF self.body.t = "Some"
    THEN LET r == IndexAssign(self.body.v, v.key, JStr(v.val)) IN
         IF r.st = "ok" THEN Ok([self EXCEPT !.body = Some(r.val)]) ELSE r
    ELSE Ok(self)

apply_one(self, v) ==
    CASE v.kv_type = "Query"  -> apply_query(self, v)
      [] v.kv_type = "Header" -> apply_header(self, v)
      [] v.kv_type = "Body"   -> apply_body(self, v)

\* the for loop of update: the first error or panic ends it, leaving the
\* context as the overrides before it made it
RECURSIVE update(_, _)
update(self, vs) ==
    IF vs = <<>> THEN [st |-> "ok", ctx |-> self]
    ELSE LET r == apply_one(self, Head(vs)) IN
         IF r.st = "ok" THEN update(r.val, Tail(vs))
         ELSE [st |-> r.st, ctx |-> self, msg |-> r.msg]

OverrideKeys == {<<"a">>, <<"Z">>, <<"a", "@">>}

OverrideVals == {<<"1">>, <<"2">>, <<"\n">>}

Overrides ==
    {KeyVal(t, k, v) : t \in {"Query", "Header", "Body"}, k \in OverrideKeys, v \in OverrideVals}

\* params of a loaded profile: an object (try_load), its fields strings or
\* arrays of strings (as from_str builds them for a repeated query key)
ParamsChoices ==
    {JObj(EmptyMap),
     JObj(MapInsert(EmptyMap, <<"a">>, JStr(<<"0">>))),
     JObj(MapInsert(MapInsert(EmptyMap, <<"a">>, JArr(<<JStr(<<"0">>), JStr(<<"9">>)>>)),
                    <<"c">>, JStr(<<"0">>)))}

HeadersChoices == {<<>>, << <<<<"z">>, <<"0">>>>, <<<<"z">>, <<"9">>>>, <<<<"1">>, <<"0">>>> >>}

BodyChoices ==
    {None,
     Some(JObj(MapInsert(EmptyMap, <<"a">>, JNum(<<"0">>)))),
     Some(JStr(<<"0">>))}

Contexts ==
    {RequestContext("GET", "http://h/", p, h, b, None) :
        p \in ParamsChoices, h \in HeadersChoices, b \in BodyChoices}

InitUpdate ==
    /\ ctx0 \in Contexts
    /\ values \in SeqsUpTo(Overrides, MaxOverrides)
    /\ updated = Idle
    /\ ParseUnused /\ DiffUnused /\ RenderUnused /\ LoadUnused /\ SerdeUnused /\ SendUnused

\* run: config.update(&args.extra_params)
Update ==
    /\ updated.st = "idle"
    /\ updated' = update(ctx0, values)
    /\ UNCHANGED <<ctx0, values, parseVars, diffVars, renderVars, loadVars, serdeVars, sendVars>>

NextUpdate == Update

SpecUpdate == InitUpdate /\ [][NextUpdate]_vars

AllOfKind(vs, t) == \A i \in 1..Len(vs) : vs[i].kv_type = t

KeysOf(vs) == {vs[i].key : i \in 1..Len(vs)}

\* the value of the last override of vs with key k
LastVal(vs, k) ==
    vs[CHOOSE i \in 1..Len(vs) :
          vs[i].key = k /\ \A j \in (i + 1)..Len(vs) : vs[j].key # k].val

\* C3: after a sequence of Query overrides every key named holds the string
\* of the last override with that key (whatever it held before, arrays
\* included), and every other param keeps its value.
QueryLastWriteWins ==
    (updated.st # "idle" /\ AllOfKind(values, "Query")) =>
        /\ updated.st = "ok"
        /\ is_object(updated.ctx.params)
        /\ DOMAIN updated.ctx.params.m = DOMAIN ctx0.params.m \cup KeysOf(values)
        /\ \A k \in KeysOf(values) :
              updated.ctx.params.m[k] = JStr(LastVal(values, k))
        /\ \A k \in DOMAIN ctx0.params.m \ KeysOf(values) :
              updated.ctx.params.m[k] = ctx0.params.m[k]

\* a=1 then a=2 applied to params whose a was an array, c untouched
QueryLastWriteWinsWitness ==
    /\ updated.st = "ok"
    /\ values = <<KeyVal("Query", <<"a">>, <<"1">>), KeyVal("Query", <<"a">>, <<"2">>)>>
    /\ DOMAIN ctx0.params.m = {<<"a">>, <<"c">>}
    /\ ctx0.params.m[<<"a">>].t = "array"
    /\ updated.ctx.params.m[<<"a">>] = JStr(<<"2">>)
    /\ updated.ctx.params.m[<<"c">>] = JStr(<<"0">>)

\* C4: Body overrides applied to a context without a body succeed and leave
\* the whole context as it was; a body that is absent stays absent.
BodyOverrideDroppedWhenAbsent ==
    (updated.st # "idle" /\ ctx0.body = None) =>
        /\ updated.ctx.body = None
        /\ (AllOfKind(values, "Body") => updated.st = "ok" /\ updated.ctx = ctx0)

\* a Body override has been applied to a context without a body
BodyOverrideDroppedWitness ==
    /\ updated.st = "ok"
    /\ ctx0.body = None
    /\ values = <<KeyVal("Body", <<"a">>, <<"1">>)>>
    /\ updated.ctx = ctx0

\* the entries of the map h held under name, in order
EntriesOf(h, name) == SelectSeq(h, LAMBDA e : e[1] = name)

\* the override's key is a header name and its value a header value
HeaderOverrideValid(v) ==
    HeaderNameFromStr(v.key).st = "ok" /\ HeaderValueFromStr(v.val).st = "ok"

\* the overrides of vs before the first one that is not valid
ValidPrefix(vs) ==
    LET bad == {i \in 1..Len(vs) : ~HeaderOverrideValid(vs[i])} IN
    IF bad = {} THEN vs
    ELSE SubSeq(vs, 1, (CHOOSE i \in bad : \A j \in bad : i <= j) - 1)

\* the header names the overrides of vs name
NamesOf(vs) == {HeaderNameFromStr(vs[i].key).val : i \in 1..Len(vs)}

\* the value of the last override of vs for the header name
LastHeaderVal(vs, name) ==
    vs[CHOOSE i \in 1..Len(vs) :
          /\ HeaderNameFromStr(vs[i].key).val = name
          /\ \A j \in (i + 1)..Len(vs) : HeaderNameFromStr(vs[j].key).val # name].val

\* C14: Header overrides are applied up to the first whose key is not a
\* header name or whose value is not a header value; update then fails with
\* the header parse error and that override adds nothing. Each override
\* applied leaves its header name with exactly its one value, whatever the
\* name held before; other headers, params and body are as they were.
HeaderOverrideReplaces ==
    (updated.st # "idle" /\ AllOfKind(values, "Header")) =>
        LET done == ValidPrefix(values) IN
        /\ updated.st = (IF done = values THEN "ok" ELSE "err")
        /\ done # values =>
              updated.msg \in {"invalid HTTP header name", "failed to parse header value"}
        /\ updated.ctx.params = ctx0.params
        /\ updated.ctx.body = ctx0.body
        /\ HeaderNames(updated.ctx.headers) = HeaderNames(ctx0.headers) \cup NamesOf(done)
        /\ \A name \in NamesOf(done) :
              EntriesOf(updated.ctx.headers, name) = << <<name, LastHeaderVal(done, name)>> >>
        /\ \A name \in HeaderNames(ctx0.headers) \ NamesOf(done) :
              EntriesOf(updated.ctx.headers, name) = EntriesOf(ctx0.headers, name)

\* %Z=1 applied to headers that held two values of z; then an override
\* with a line feed in its value has failed and added nothing
HeaderOverrideWitness ==
    /\ updated.st = "err"
    /\ values = <<KeyVal("Header", <<"Z">>, <<"1">>), KeyVal("Header", <<"a">>, <<"\n">>)>>
    /\ Len(EntriesOf(ctx0.headers, <<"z">>)) = 2
    /\ EntriesOf(updated.ctx.headers, <<"z">>) = << <<<<"z">>, <<"1">>>> >>
    /\ <<"a">> \notin HeaderNames(updated.ctx.headers)

\* C17: on a loaded context (params an object, body absent or any JSON
\* value) update ends, for every sequence of overrides, either in success or
\* in the header parse error, never in a panic, and without a Header
\* override among them it succeeds.
UpdateIsTotal ==
    updated.st # "idle" =>
        /\ updated.st \in {"ok", "err"}
        /\ updated.st = "err" =>
              updated.msg \in {"invalid HTTP header name", "failed to parse header value"}
        /\ (\A i \in 1..Len(values) : values[i].kv_type # "Header") => updated.st = "ok"

(***************************************************************************)
(* serde_json::from_str and to_string_pretty on a body text                *)
(*                                                                         *)
(* A body is a sequence of characters over BodyChars; over this alphabet   *)
(* the JSON grammar is: value = ws (object | string | number) ws, a number *)
(* a run of digits, a string any characters between two quotes, an object  *)
(* '{' ws '}' or '{' members '}' with members separated by ','.            *)
(***************************************************************************)
WS == {" ", "\n"}

Digits == {"1", "2"}

BodyChars == {"{", "}", "\"", ":", ",", "a", "b"} \cup WS \cup Digits

\* byte values, for the key order of serde_json's BTreeMap
CharCode(c) ==
    CASE c = "\n" -> 10 [] c = " " -> 32 [] c = "\"" -> 34 [] c = "," -> 44
      [] c = "1" -> 49 [] c = "2" -> 50 [] c = ":" -> 58
      [] c = "a" -> 97 [] c = "b" -> 98 [] c = "{" -> 123 [] c = "}" -> 125

\* the number of leading characters of s that are in S
LeadingCount(s, S) ==
    IF \A i \in 1..Len(s) : s[i] \in S THEN Len(s)
    ELSE (CHOOSE i \in 1..Len(s) : s[i] \notin S /\ \A j \in 1..(i - 1) : s[j] \in S) - 1

Drop(s, n) == SubSeq(s, n + 1, Len(s))

SkipWs(s) == Drop(s, LeadingCount(s, WS))

Fail == [ok |-> FALSE]

Parsed(v, rest) == [ok |-> TRUE, v |-> v, rest |-> rest]

\* s starts with a quote: the characters up to the closing quote, none of
\* them a raw control character
ParseString(s) ==
    LET close == IndexOf(Tail(s), "\"") IN
    IF close = 0 \/ \E i \in 1..(close - 1) : Tail(s)[i] \in ControlChars THEN Fail
    ELSE Parsed(SubSeq(Tail(s), 1, close - 1), Drop(Tail(s), close))

RECURSIVE ParseValue(_), ParseMembers(_, _)
ParseValue(s0) ==
    LET s == SkipWs(s0) IN
    IF s = <<>> THEN Fail
    ELSE IF Head(s) \in Digits
         THEN LET n == LeadingCount(s, Digits) IN Parsed(JNum(SubSeq(s, 1, n)), Drop(s, n))
    ELSE IF Head(s) = "\""
         THEN LET r == ParseString(s) IN
              IF r.ok THEN Parsed(JStr(r.v), r.rest) ELSE Fail
    ELSE IF Head(s) = "{"
         THEN LET t == SkipWs(Tail(s)) IN
              IF t # <<>> /\ Head(t) = "}" THEN Parsed(JObj(EmptyMap), Tail(t))
              ELSE ParseMembers(t, EmptyMap)
    ELSE Fail

\* s is at a key; m holds the members read so far (Map::insert: a repeated
\* key keeps its last value)
ParseMembers(s, m) ==
    IF s = <<>> \/ Head(s) # "\"" THEN Fail
    ELSE LET k == ParseString(s) IN
         IF ~k.ok THEN Fail
         ELSE LET a == SkipWs(k.rest) IN
              IF a = <<>> \/ Head(a) # ":" THEN Fail
              ELSE LET v == ParseValue(Tail(a)) IN
                   IF ~v.ok THEN Fail
                   ELSE LET m2 == MapInsert(m, k.v, v.v)
                            b == SkipWs(v.rest)
                        IN IF b = <<>> THEN Fail
                           ELSE IF Head(b) = "}" THEN Parsed(JObj(m2), Tail(b))
                           ELSE IF Head(b) = "," THEN ParseMembers(SkipWs(Tail(b)), m2)
                           ELSE Fail

\* serde_json::from_str::<Value>: one value, nothing but whitespace after it
from_str(s) ==
    LET r == ParseValue(s) IN
    IF r.ok /\ SkipWs(r.rest) = <<>> THEN Ok(r.v) ELSE Err("invalid JSON")

\* byte-wise lexicographic order of two strings (String's Ord)
LexLeq(x, y) ==
    \/ Len(x) <= Len(y) /\ SubSeq(y, 1, Len(x)) = x
    \/ \E i \in 1..Len(x) :
          /\ i <= Len(y)
          /\ SubSeq(x, 1, i - 1) = SubSeq(y, 1, i - 1)
          /\ CharCode(x[i]) < CharCode(y[i])

\* the keys of a Map in the order its iterator yields them
RECURSIVE SortedKeys(_)
SortedKeys(K) ==
    IF K = {} THEN <<>>
    ELSE LET k == CHOOSE x \in K : \A y \in K : LexLeq(x, y) IN
         <<k>> \o SortedKeys(K \ {k})

Quote(str) == <<"\"">> \o str \o <<"\"">>

Indent(d) == [i \in 1..(2 * d) |-> " "]

\* PrettyFormatter, two spaces per level
RECURSIVE Pretty(_, _), PrettyEntries(_, _, _, _)
Pretty(v, d) ==
    CASE v.t = "number" -> v.n
      [] v.t = "string" -> Quote(v.s)
      [] v.t = "object" ->
            IF DOMAIN v.m = {} THEN <<"{", "}">>
            ELSE <<"{">> \o PrettyEntries(v.m, SortedKeys(DOMAIN v.m), d + 1, TRUE)
                        \o <<"\n">> \o Indent(d) \o <<"}">>

PrettyEntries(m, keys, d, first) ==
    IF keys = <<>> THEN <<>>
    ELSE (IF first THEN <<"\n">> ELSE <<",", "\n">>)
         \o Indent(d) \o Quote(Head(keys)) \o <<":", " ">> \o Pretty(m[Head(keys)], d)
         \o PrettyEntries(m, Tail(keys), d, FALSE)

to_string_pretty(v) == Pretty(v, 0)

(***************************************************************************)
(* requester: DiffContext::request_to_string and diff_response             *)
(***************************************************************************)
MaxHeaders == 2

MaxMembers == 2

\* HeaderMap::append, as the transport fills the response's map: a value of
\* a name already present joins that name's values
HeaderAppend(h, name, value) ==
    IF name \notin HeaderNames(h) THEN Append(h, <<name, value>>)
    ELSE LET last == CHOOSE i \in 1..Len(h) :
                         h[i][1] = name /\ \A j \in (i + 1)..Len(h) : h[j][1] # name
         IN SubSeq(h, 1, last) \o << <<name, value>> >> \o Drop(h, last)

\* the HeaderMap of a response whose header lines were wire, in that order
RECURSIVE FromWire(_, _)
FromWire(h, wire) ==
    IF wire = <<>> THEN h
    ELSE FromWire(HeaderAppend(h, HeaderNameFromStr(Head(wire)[1]).val, Head(wire)[2]),
                  Tail(wire))

\* reqwest::Response as the transport hands it over
Response(version, status, wire, body) ==
    [version |-> version, status |-> status, wire |-> wire,
     headers |-> FromWire(<<>>, wire), body |-> body]

\* StatusCode::canonical_reason
CanonicalReason(code) ==
    IF code = <<"2", "0", "0">> THEN <<"O", "K">>
    ELSE <<"N", "o", "t", " ", "F", "o", "u", "n", "d">>

\* Display for StatusCode: "<code> <reason>"
StatusDisplay(code) == code \o <<" ">> \o CanonicalReason(code)

\* a slip: the configured names are folded to lower case before they are
\* compared
is_skipped_nocase(skip, name) ==
    \E i \in 1..Len(skip) : [j \in 1..Len(skip[i]) |-> Lower(skip[i][j])] = name

\* self.response.skip_headers.iter().any(|v| v == k.as_str())
is_skipped(skip, name) == \E i \in 1..Len(skip) : skip[i] = name

\* writeln!("{}: {:?}", k, v) for every header that is not skipped
RECURSIVE HeaderLines(_, _)
HeaderLines(skip, h) ==
    IF h = <<>> THEN <<>>
    ELSE (IF is_skipped(skip, Head(h)[1]) THEN <<>>
          ELSE Head(h)[1] \o <<":", " ">> \o Quote(Head(h)[2]) \o <<"\n">>)
         \o HeaderLines(skip, Tail(h))

\* a slip: the body is written as received
CanonBody_raw(body) == body

\* the body as it is written: re-serialized when it parses as JSON
CanonBody(body) ==
    LET json == from_str(body) IN
    IF json.st = "ok" THEN to_string_pretty(json.val) ELSE body

request_to_string(skip, res) ==
    StatusDisplay(res.status) \o <<"\n">>
        \o HeaderLines(skip, res.headers)
        \o <<"\n">>
        \o CanonBody(res.body) \o <<"\n">>

Equal == [tag |-> "Equal"]

\* DiffResult::Diff(build_diff(headers, text1, text2)); the rendering itself
\* is build_diff, below
Diff(text1, text2) == [tag |-> "Diff", old |-> text1, new |-> text2]

\* a slip: status and raw headers are compared before the texts, as the
\* older differ crate does
diff_response_shortcut(skip, r1, r2) ==
    LET text1 == request_to_string(skip, r1)
        text2 == request_to_string(skip, r2)
    IN [texts |-> <<text1, text2>>,
        result |-> IF r1.status # r2.status \/ r1.headers # r2.headers \/ text1 # text2
                   THEN Diff(text1, text2) ELSE Equal]

diff_response(skip, r1, r2) ==
    LET text1 == request_to_string(skip, r1)
        text2 == request_to_string(skip, r2)
    IN [texts |-> <<text1, text2>>,
        result |-> IF text1 # text2 THEN Diff(text1, text2) ELSE Equal]

\* header lines as they come over the wire: names in either case
WireNames == {<<"Z">>, <<"a">>}

WireHeaders == SeqsUpTo(WireNames \X {<<"1">>, <<"2">>}, MaxHeaders)

Statuses == {<<"2", "0", "0">>, <<"4", "0", "4">>}

SkipChoices == {<<>>, << <<"Z">> >>, << <<"z">> >>, << <<"a">>, <<"z">> >>}

\* JSON texts: objects of up to MaxMembers members in any wire order, keys
\* possibly repeated, written compactly or padded with sp
NestedText == <<"{", "\"", "b", "\"", ":", "1", ",", "\"", "a", "\"", ":", "2", "}">>

MemberChoices == {<<"a">>, <<"b">>} \X {<<"1">>, NestedText}

RECURSIVE MembersText(_, _)
MembersText(ms, sp) ==
    IF ms = <<>> THEN <<>>
    ELSE Quote(Head(ms)[1]) \o sp \o <<":">> \o sp \o Head(ms)[2]
         \o (IF Len(ms) > 1 THEN sp \o <<",">> \o sp ELSE <<>>)
         \o MembersText(Tail(ms), sp)

ObjectText(ms, sp) == <<"{">> \o sp \o MembersText(ms, sp) \o sp \o <<"}">>

JsonBodies ==
    {ObjectText(ms, sp) : ms \in SeqsUpTo(MemberChoices, MaxMembers), sp \in {<<>>, <<" ">>, <<"\n">>}}

\* texts that are not JSON: an object cut short, a bare word, nothing
OtherBodies ==
    {SubSeq(ObjectText(ms, <<>>), 1, Len(ObjectText(ms, <<>>)) - 1) :
        ms \in SeqsUpTo(MemberChoices, MaxMembers)}
    \cup {<<>>, <<"a">>, <<"1", " ", "2">>, <<" ", "1", "\n">>, <<"\"", "a", "\"">>}

Bodies == JsonBodies \cup OtherBodies

CompactBodies ==
    {ObjectText(ms, <<>>) : ms \in SeqsUpTo(MemberChoices, MaxMembers)} \cup OtherBodies

\* two responses that differ in their bodies at most
InitBodies ==
    /\ skip_headers = <<>>
    /\ \E b1 \in CompactBodies, b2 \in Bodies :
          /\ res1 = Response("HTTP/1.1", <<"2", "0", "0">>, << <<<<"a">>, <<"1">>>> >>, b1)
          /\ res2 = Response("HTTP/1.1", <<"2", "0", "0">>, << <<<<"a">>, <<"1">>>> >>, b2)

\* two responses that differ in status and headers at most
InitHeaders ==
    /\ skip_headers \in SkipChoices
    /\ \E s1 \in {<<"2", "0", "0">>}, s2 \in Statuses, w1 \in WireHeaders, w2 \in WireHeaders :
          /\ res1 = Response("HTTP/1.1", s1, w1, <<"a">>)
          /\ res2 = Response("HTTP/1.1", s2, w2, <<"a">>)

InitDiff ==
    /\ InitBodies \/ InitHeaders
    /\ texts = Idle /\ result = Idle
    /\ ParseUnused /\ UpdateUnused /\ RenderUnused /\ LoadUnused /\ SerdeUnused /\ SendUnused

\* DiffContext::diff, once both requests have been answered
DiffResponse ==
    /\ result = Idle
    /\ LET r == diff_response(skip_headers, res1, res2) IN
          /\ texts' = r.texts
          /\ result' = r.result
    /\ UNCHANGED <<skip_headers, res1, res2, parseVars, updateVars, renderVars, loadVars,
                   serdeVars, sendVars>>

NextDiff == DiffResponse

SpecDiff == InitDiff /\ [][NextDiff]_vars

\* C5: the result is Equal exactly when the two canonical texts are
\* identical, and a Diff otherwise; status and headers count only through
\* the texts.
EqualIffTextsIdentical ==
    result # Idle =>
        /\ result.tag \in {"Equal", "Diff"}
        /\ (result = Equal <=> texts[1] = texts[2])
        /\ (texts[1] = request_to_string(skip_headers, res1))
        /\ (texts[2] = request_to_string(skip_headers, res2))

\* two responses whose header maps differ have compared Equal
EqualIffTextsIdenticalWitness ==
    /\ result = Equal
    /\ res1.headers # res2.headers
    /\ texts[1] = texts[2]

\* h without its i-th entry
RemoveAt(h, i) == SubSeq(h, 1, i - 1) \o Drop(h, i)

\* the entries of h whose name is, as a string, an entry of skip_headers
KeptHeaders(h) == SelectSeq(h, LAMBDA e : e[1] \notin Range(skip_headers))

JsonBodyCanonical ==
    result # Idle =>
        /\ ( /\ res1.status = res2.status /\ res1.headers = res2.headers
             /\ from_str(res1.body).st = "ok"
             /\ from_str(res2.body) = from_str(res1.body) )
           => (texts[1] = texts[2] /\ result = Equal)
        /\ from_str(res1.body).st = "err" =>
              texts[1] = StatusDisplay(res1.status) \o <<"\n">>
                           \o HeaderLines(skip_headers, res1.headers)
                           \o <<"\n">> \o res1.body \o <<"\n">>

\* {"a":1,"b":{...}} written compactly and { "b" : {...} , "a" : 1 } have
\* compared Equal
JsonBodyCanonicalWitness ==
    /\ result = Equal
    /\ res1.body = ObjectText(<< <<<<"a">>, <<"1">>>>, <<<<"b">>, NestedText>> >>, <<>>)
    /\ res2.body = ObjectText(<< <<<<"b">>, NestedText>>, <<<<"a">>, <<"1">>>> >>, <<" ">>)

\* Debug of http::Version, as xreq's print_status writes it
VersionDebug(version) ==
    IF version = "HTTP/1.1" THEN <<"H", "T", "T", "P", "/", "1", ".", "1">>
    ELSE <<"H", "T", "T", "P", "/", "2", ".", "0">>

\* one line per header line received, in the order received, the skipped
\* ones left out
RECURSIVE WireLines(_, _)
WireLines(skip, wire) ==
    IF wire = <<>> THEN <<>>
    ELSE LET name == HeaderNameFromStr(Head(wire)[1]).val IN
         (IF is_skipped(skip, name) THEN <<>>
          ELSE name \o <<":", " ">> \o Quote(Head(wire)[2]) \o <<"\n">>)
         \o WireLines(skip, Tail(wire))

\* the text the claim describes for a response
LayoutOf(skip, res) ==
    VersionDebug(res.version) \o <<" ">> \o StatusDisplay(res.status) \o <<"\n">>
        \o WireLines(skip, res.wire)
        \o <<"\n">>
        \o CanonBody(res.body) \o <<"\n">>

\* C15: the canonical text of a response is its status line, made of the
\* protocol version and the status, then a line for every header that is
\* not skipped, in the order the headers were received, then one blank line,
\* then the body, re-serialized when it is JSON.
CanonicalTextLayout ==
    result # Idle =>
        /\ texts[1] = LayoutOf(skip_headers, res1)
        /\ texts[2] = LayoutOf(skip_headers, res2)

(***************************************************************************)
(* requester: build_diff                                                   *)
(*                                                                         *)
(* A text is the sequence of its lines, each with its newline.  The texts  *)
(* of this component have pairwise distinct lines and their common lines   *)
(* in the same order, so the longest common subsequence is unique and      *)
(* TextDiff::from_lines yields the one edit script DiffOps computes.       *)
(***************************************************************************)
MaxLines == 9

\* diff.grouped_ops(3)
ContextRadius == 3

LineNames == <<"a", "b", "c", "d", "e", "f", "g", "h", "i", "j", "k", "l">>

EqualOp(oi, ni, len) ==
    [tag |-> "Equal", old_index |-> oi, old_len |-> len, new_index |-> ni, new_len |-> len]

ChangeOp(oi, olen, ni, nlen) ==
    [tag |-> IF olen > 0 /\ nlen > 0 THEN "Replace" ELSE IF olen > 0 THEN "Delete" ELSE "Insert",
     old_index |-> oi, old_len |-> olen, new_index |-> ni, new_len |-> nlen]

\* the length of the common run of a from i and b from j (0-based)
RECURSIVE CommonRun(_, _, _, _)
CommonRun(a, b, i, j) ==
    IF i < Len(a) /\ j < Len(b) /\ a[i + 1] = b[j + 1]
    THEN 1 + CommonRun(a, b, i + 1, j + 1) ELSE 0

\* the number of lines of a from i (0-based) that do not occur in b
RECURSIVE OwnRun(_, _, _)
OwnRun(a, b, i) ==
    IF i < Len(a) /\ a[i + 1] \notin Range(b) THEN 1 + OwnRun(a, b, i + 1) ELSE 0

\* TextDiff::from_lines(old, new).ops(): equal runs, and between them the
\* lines only old has and the lines only new has as one Delete, Insert or
\* Replace
RECURSIVE DiffOps(_, _, _, _)
DiffOps(a, b, i, j) ==
    IF i >= Len(a) /\ j >= Len(b) THEN <<>>
    ELSE LET eq == CommonRun(a, b, i, j) IN
         IF eq > 0 THEN <<EqualOp(i, j, eq)>> \o DiffOps(a, b, i + eq, j + eq)
         ELSE LET dl == OwnRun(a, b, i)
                  il == OwnRun(b, a, j)
              IN IF dl + il > 0
                 THEN <<ChangeOp(i, dl, j, il)>> \o DiffOps(a, b, i + dl, j + il)
                 ELSE \* a line that moved: not a text of this component
                      <<ChangeOp(i, Len(a) - i, j, Len(b) - j)>>

\* usize::saturating_sub
saturating_sub(x, y) == IF x > y THEN x - y ELSE 0

\* the first and the last op of ops, when Equal, cut down to n lines
TrimEnds(ops, n) ==
    LET first == IF ops[1].tag = "Equal"
                 THEN LET offset == saturating_sub(ops[1].old_len, n) IN
                      [ops EXCEPT ![1] = EqualOp(@.old_index + offset, @.new_index + offset,
                                                 @.old_len - offset)]
                 ELSE ops
        last == Len(first)
    IN IF first[last].tag = "Equal"
       THEN [first EXCEPT ![last] = EqualOp(@.old_index, @.new_index,
                                            @.old_len - saturating_sub(@.old_len, n))]
       ELSE first

\* the loop of group_diff_ops: an Equal of more than 2n lines ends the
\* pending group with n lines and starts the next with its last n lines
RECURSIVE GroupLoop(_, _, _, _)
GroupLoop(ops, n, pending, rv) ==
    IF ops = <<>>
    THEN IF pending = <<>> \/ (Len(pending) = 1 /\ pending[1].tag = "Equal") THEN rv
         ELSE Append(rv, pending)
    ELSE LET op == Head(ops) IN
         IF op.tag = "Equal" /\ op.old_len > n * 2
         THEN LET offset == saturating_sub(op.old_len, n) IN
              GroupLoop(Tail(ops), n,
                        <<EqualOp(op.old_index + offset, op.new_index + offset,
                                  op.old_len - offset)>>,
                        Append(rv, Append(pending, EqualOp(op.old_index, op.new_index, n))))
         ELSE GroupLoop(Tail(ops), n, Append(pending, op), rv)

\* TextDiff::grouped_ops(n)
grouped_ops(ops, n) ==
    IF ops = <<>> THEN <<>> ELSE GroupLoop(TrimEnds(ops, n), n, <<>>, <<>>)

\* the decimal digits of n
RECURSIVE Decimal(_)
Decimal(n) ==
    LET d == <<"0", "1", "2", "3", "4", "5", "6", "7", "8", "9">> IN
    IF n < 10 THEN <<d[n + 1]>> ELSE Decimal(n \div 10) \o <<d[(n % 10) + 1]>>

Spaces(n) == [i \in 1..n |-> " "]

\* a slip: "{:>4}", the number at the right of its column
LineDisplay_right(idx) ==
    IF idx = None THEN Spaces(4)
    ELSE LET digits == Decimal(idx.v + 1) IN Spaces(saturating_sub(4, Len(digits))) \o digits

\* Display for Line: four blanks for None, "{:<4}" of idx + 1 for Some(idx)
LineDisplay(idx) ==
    IF idx = None THEN Spaces(4)
    ELSE LET digits == Decimal(idx.v + 1) IN digits \o Spaces(saturating_sub(4, Len(digits)))

\* one change as build_diff writes it: "{}{} |{}" and the line's content
Rendered(old_index, new_index, sign, content) ==
    [kind |-> "line", old_col |-> LineDisplay(old_index), new_col |-> LineDisplay(new_index),
     sep |-> <<" ", "|">>, sign |-> sign, content |-> content]

\* diff.iter_inline_changes(op): the lines of an Equal op, or the deleted
\* lines followed by the inserted lines
RenderOp(a, b, op) ==
    IF op.tag = "Equal"
    THEN [k \in 1..op.old_len |->
             Rendered(Some(op.old_index + k - 1), Some(op.new_index + k - 1), " ",
                      a[op.old_index + k])]
    ELSE [k \in 1..op.old_len |->
             Rendered(Some(op.old_index + k - 1), None, "-", a[op.old_index + k])]
         \o [k \in 1..op.new_len |->
                Rendered(None, Some(op.new_index + k - 1), "+", b[op.new_index + k])]

RECURSIVE RenderGroup(_, _, _)
RenderGroup(a, b, group) ==
    IF group = <<>> THEN <<>>
    ELSE RenderOp(a, b, Head(group)) \o RenderGroup(a, b, Tail(group))

\* writeln!("{:-^1$}", "-", 80)
Divider == [kind |-> "divider"]

\* writeln!("{}", headers)
HeaderItem == [kind |-> "header"]

\* the for loop over the groups, idx counted from 0
RECURSIVE RenderGroups(_, _, _, _)
RenderGroups(a, b, groups, idx) ==
    IF groups = <<>> THEN <<>>
    ELSE (IF idx > 0 THEN <<Divider>> ELSE <<>>)
         \o RenderGroup(a, b, Head(groups))
         \o RenderGroups(a, b, Tail(groups), idx + 1)

\* a slip: the divider is written before every group, the first included
build_diff_divider_first(a, b) ==
    <<HeaderItem>> \o RenderGroups(a, b, grouped_ops(DiffOps(a, b, 0, 0), ContextRadius), 1)

build_diff(a, b) ==
    <<HeaderItem>> \o RenderGroups(a, b, grouped_ops(DiffOps(a, b, 0, 0), ContextRadius), 0)

\* the lines i of 1..Len(mark) that mark puts into the text of side
TextOf(mark, side) ==
    LET idx == SelectSeq([i \in 1..Len(mark) |-> i], LAMBDA i : mark[i] \in {"both", side})
    IN [k \in 1..Len(idx) |-> LineNames[idx[k]]]

\* two texts that differ: every line is in both, in old only or in new only
InitRender ==
    /\ \E n \in 1..MaxLines : \E mark \in [1..n -> {"both", "old", "new"}] :
          /\ \E i \in 1..n : mark[i] # "both"
          /\ old = TextOf(mark, "old")
          /\ new = TextOf(mark, "new")
    /\ rendered = Idle
    /\ ParseUnused /\ UpdateUnused /\ DiffUnused /\ LoadUnused /\ SerdeUnused /\ SendUnused

\* diff_response: text1 != text2, so build_diff(headers, text1, text2)
BuildDiff ==
    /\ rendered = Idle
    /\ rendered' = [st |-> "ok", buf |-> build_diff(old, new)]
    /\ UNCHANGED <<old, new, parseVars, updateVars, diffVars, loadVars, serdeVars, sendVars>>

NextRender == BuildDiff

SpecRender == InitRender /\ [][NextRender]_vars

IsChange(it) == it.kind = "line" /\ it.sign \in {"-", "+"}

IsContext(it) == it.kind = "line" /\ it.sign = " "

\* the characters of a line-number column that are not blanks
ColumnNumber(col) == SelectSeq(col, LAMBDA c : c # " ")

\* what build_diff wrote after the header line
Hunks == Tail(rendered.buf)

\* C8: the rendered lines form hunks, a hunk being a run of lines between
\* dividers: no divider before the first or after the last hunk and never
\* two in a row; every hunk begins with at most 3 unchanged lines before a
\* changed line and ends with at most 3 after one; every deleted and every
\* inserted line is shown with its 1-based line number.
HunksHaveContextAndDividers ==
    rendered # Idle =>
        LET b == Hunks IN
        /\ b # <<>>
        /\ b[1] # Divider /\ b[Len(b)] # Divider
        /\ \A i \in 1..(Len(b) - 1) : ~(b[i] = Divider /\ b[i + 1] = Divider)
        /\ \A i \in 1..Len(b) :
              (b[i] # Divider /\ (i = 1 \/ b[i - 1] = Divider)) =>
                  \E j \in i..(i + ContextRadius) :
                      /\ j <= Len(b) /\ IsChange(b[j])
                      /\ \A k \in i..(j - 1) : IsContext(b[k])
        /\ \A i \in 1..Len(b) :
              (b[i] # Divider /\ (i = Len(b) \/ b[i + 1] = Divider)) =>
                  \E j \in (i - ContextRadius)..i :
                      /\ j >= 1 /\ IsChange(b[j])
                      /\ \A k \in (j + 1)..i : IsContext(b[k])
        /\ \A i \in 1..Len(old) : old[i] \notin Range(new) =>
              \E k \in 1..Len(b) :
                  /\ IsChange(b[k]) /\ b[k].sign = "-" /\ b[k].content = old[i]
                  /\ ColumnNumber(b[k].old_col) = Decimal(i)
                  /\ ColumnNumber(b[k].new_col) = <<>>
        /\ \A i \in 1..Len(new) : new[i] \notin Range(old) =>
              \E k \in 1..Len(b) :
                  /\ IsChange(b[k]) /\ b[k].sign = "+" /\ b[k].content = new[i]
                  /\ ColumnNumber(b[k].new_col) = Decimal(i)
                  /\ ColumnNumber(b[k].old_col) = <<>>
        /\ (old = <<"a", "b">> /\ new = <<"a", "c">>) =>
              /\ Len(b) = 3
              /\ IsContext(b[1]) /\ b[1].content = "a"
              /\ b[2].sign = "-" /\ b[2].content = "b" /\ ColumnNumber(b[2].old_col) = <<"2">>
              /\ b[3].sign = "+" /\ b[3].content = "c" /\ ColumnNumber(b[3].new_col) = <<"2">>

\* two hunks have been written, the first ending and the second beginning
\* with three unchanged lines, one divider between them
HunksWitness ==
    /\ rendered # Idle
    /\ \E i \in 5..(Len(Hunks) - 4) :
          /\ Hunks[i] = Divider
          /\ \A k \in 1..Len(Hunks) : Hunks[k] = Divider => k = i
          /\ \A k \in (i - 3)..(i + 3) : k # i => IsContext(Hunks[k])
          /\ IsChange(Hunks[i - 4]) /\ IsChange(Hunks[i + 4])

\* the 1-based number of the line c in the text t
LineNumber(t, c) == CHOOSE k \in 1..Len(t) : t[k] = c

\* the number n at the right of a column of 4, blanks before it
RightAligned(n) == Spaces(saturating_sub(4, Len(Decimal(n)))) \o Decimal(n)

\* the number n at the left of a column of 4, blanks after it
LeftAligned(n) == Decimal(n) \o Spaces(saturating_sub(4, Len(Decimal(n))))

\* the lines build_diff wrote for changes
RenderedLines == {Hunks[i] : i \in {j \in 1..Len(Hunks) : Hunks[j].kind = "line"}}

NoFields == [f \in {} |-> JNull]

\* the mapping m with field f set to v when present holds
WithField(m, present, f, v) == IF present THEN (f :> v) @@ m ELSE m

Has(m, f) == f \in DOMAIN m

\* Method::default()
default_method == "GET"

\* is_default::<Method>
is_default(t) == t = default_method

is_empty_value(v) == is_null(v) \/ (is_object(v) /\ DOMAIN v.m = {})

\* a slip: an omitted params is read as null
default_params_null == JNull

default_params == JObj(EmptyMap)

\* http_serde::header_map::serialize: every name once, with its values
RECURSIVE GroupHeaders(_)
GroupHeaders(h) ==
    IF h = <<>> THEN <<>>
    ELSE LET name == Head(h)[1]
             mine == SelectSeq(h, LAMBDA e : e[1] = name)
         IN << <<name, [i \in 1..Len(mine) |-> mine[i][2]]>> >>
            \o GroupHeaders(SelectSeq(h, LAMBDA e : e[1] # name))

\* http_serde::header_map::deserialize: every value appended under its name
RECURSIVE UngroupHeaders(_, _)
UngroupHeaders(h, groups) ==
    IF groups = <<>> THEN h
    ELSE LET name == Head(groups)[1]
             vals == Head(groups)[2]
         IN IF vals = <<>> THEN UngroupHeaders(h, Tail(groups))
            ELSE UngroupHeaders(HeaderAppend(h, name, Head(vals)),
                                <<<<name, Tail(vals)>>>> \o Tail(groups))

\* #[derive(Serialize)] for RequestContext with its skip_serializing_if's
SerRequest(ctx) ==
    LET m0 == "url" :> ctx.url
        m1 == WithField(m0, ~is_default(ctx.method), "method", ctx.method)
        m2 == WithField(m1, ~is_empty_value(ctx.params), "params", ctx.params)
        m3 == WithField(m2, ctx.headers # <<>>, "headers", GroupHeaders(ctx.headers))
        m4 == WithField(m3, ctx.body # None, "body",
                        IF ctx.body = None THEN JNull ELSE ctx.body.v)
    IN WithField(m4, ctx.user_agent # None, "user_agent",
                 IF ctx.user_agent = None THEN JNull ELSE JStr(ctx.user_agent.v))

\* Option<Value>: a field that is absent or null is None
DeOption(m, f) == IF Has(m, f) /\ m[f] # JNull THEN Some(m[f]) ELSE None

\* Option<String>, the field a YAML string
DeOptionString(m, f) == IF Has(m, f) /\ m[f] # JNull THEN Some(m[f].s) ELSE None

\* #[derive(Deserialize)] for RequestContext with its defaults; url is the
\* one field without a default
DeRequest(m) ==
    IF ~Has(m, "url") THEN Err("missing field url")
    ELSE Ok(RequestContext(
                IF Has(m, "method") THEN m["method"] ELSE default_method,
                m["url"],
                IF Has(m, "params") THEN m["params"] ELSE default_params,
                IF Has(m, "headers") THEN UngroupHeaders(<<>>, m["headers"]) ELSE <<>>,
                DeOption(m, "body"),
                DeOptionString(m, "user_agent")))

ResponseContext(skip) == [skip_headers |-> skip]

\* ResponseContext::default()
default_response == ResponseContext(<<>>)

is_default_response(r) == r = default_response

\* skip_headers is left out when empty
SerResponse(r) == WithField(NoFields, r.skip_headers # <<>>, "skip_headers", r.skip_headers)

\* skip_headers has no serde default: it has to be there
DeResponse(m) ==
    IF ~Has(m, "skip_headers") THEN Err("missing field skip_headers")
    ELSE Ok(ResponseContext(m["skip_headers"]))

DiffContext(req1, req2, resp) == [request1 |-> req1, request2 |-> req2, response |-> resp]

SerDiffContext(ctx) ==
    LET m0 == ("request1" :> SerRequest(ctx.request1)) @@ ("request2" :> SerRequest(ctx.request2))
    IN WithField(m0, ~is_default_response(ctx.response), "response", SerResponse(ctx.response))

DeDiffContext(m) ==
    IF ~Has(m, "request1") THEN Err("missing field request1")
    ELSE IF ~Has(m, "request2") THEN Err("missing field request2")
    ELSE LET r1 == DeRequest(m["request1"])
             r2 == DeRequest(m["request2"])
             rs == IF Has(m, "response") THEN DeResponse(m["response"]) ELSE Ok(default_response)
         IN IF r1.st = "err" THEN r1
            ELSE IF r2.st = "err" THEN r2
            ELSE IF rs.st = "err" THEN rs
            ELSE Ok(DiffContext(r1.val, r2.val, rs.val))

(***************************************************************************)
(* requester: DiffConfig::try_load and RequestConfig::try_load             *)
(***************************************************************************)
MaxProfiles == 2

ProfileNames == <<"p", "q", "r", "s">>

Url == "http://h/"

ObjA == JObj(MapInsert(EmptyMap, <<"a">>, JStr(<<"1">>)))

\* request sections of a config file: only the url; params an object, null
\* (~), a sequence; no url; every field
RawMinimal == "url" :> Url

RawRequests ==
    {RawMinimal,
     ("params" :> ObjA) @@ RawMinimal,
     ("params" :> JNull) @@ RawMinimal,
     ("params" :> JArr(<<JStr(<<"1">>)>>)) @@ RawMinimal,
     NoFields,
     ("method" :> "POST") @@ ("params" :> ObjA) @@ ("body" :> ObjA)
        @@ ("headers" :> << <<<<"z">>, <<<<"0">>, <<"9">>>>>> >>)
        @@ ("user_agent" :> JStr(<<"u", "a">>)) @@ RawMinimal}

\* response sections: skip_headers given, or the section present without it
RawResponses == {"skip_headers" :> << <<"z">> >>, NoFields}

\* profiles of an xdiff config file, the response section present or not
RawProfiles ==
    {("request1" :> r1) @@ ("request2" :> r2) @@ rs :
        r1 \in RawRequests,
        r2 \in {RawMinimal, ("params" :> JNull) @@ RawMinimal},
        rs \in {NoFields} \cup {"response" :> x : x \in RawResponses}}

\* the documents with up to MaxProfiles profiles drawn from S
Documents(S) ==
    UNION {[names -> S] : names \in SUBSET {ProfileNames[i] : i \in 1..MaxProfiles}}

\* DiffConfig's flattened HashMap<String, DiffContext>: every entry has to
\* deserialize
DeDiffConfig(doc) ==
    IF \E n \in DOMAIN doc : DeDiffContext(doc[n]).st = "err"
    THEN DeDiffContext(doc[CHOOSE n \in DOMAIN doc : DeDiffContext(doc[n]).st = "err"])
    ELSE Ok([n \in DOMAIN doc |-> DeDiffContext(doc[n]).val])

\* RequestConfig's flattened HashMap<String, RequestContext>
DeRequestConfig(doc) ==
    IF \E n \in DOMAIN doc : DeRequest(doc[n]).st = "err"
    THEN DeRequest(doc[CHOOSE n \in DOMAIN doc : DeRequest(doc[n]).st = "err"])
    ELSE Ok([n \in DOMAIN doc |-> DeRequest(doc[n]).val])

ParamsNotObject(name) ==
    [st |-> "err", msg |-> "params must be an object in profile", profile |-> name]

\* a slip: only request1 is looked at
diff_params_ok_request1(ctx) == is_object(ctx.request1.params)

\* the test of the loop of DiffConfig::try_load, negated
diff_params_ok(ctx) == is_object(ctx.request1.params) /\ is_object(ctx.request2.params)

\* the test of the loop of RequestConfig::try_load, negated
req_params_ok(ctx) == is_object(ctx.params)

\* the outcomes of DiffConfig::try_load on a readable file: the
\* deserializer's error, or the error of the first profile the loop meets
\* whose params is not an object (the HashMap's order decides which), or the
\* config
DiffConfig_try_load(doc) ==
    LET config == DeDiffConfig(doc) IN
    IF config.st = "err" THEN {config}
    ELSE LET bad == {n \in DOMAIN config.val : ~diff_params_ok(config.val[n])} IN
         IF bad # {} THEN {ParamsNotObject(n) : n \in bad}
         ELSE {Ok(config.val)}

\* the same for RequestConfig::try_load
RequestConfig_try_load(doc) ==
    LET config == DeRequestConfig(doc) IN
    IF config.st = "err" THEN {config}
    ELSE LET bad == {n \in DOMAIN config.val : ~req_params_ok(config.val[n])} IN
         IF bad # {} THEN {ParamsNotObject(n) : n \in bad}
         ELSE {Ok(config.val)}

InitLoad ==
    /\ file \in {[kind |-> "xdiff", doc |-> d] : d \in Documents(RawProfiles)}
                \cup {[kind |-> "xreq", doc |-> d] : d \in Documents(RawRequests)}
    /\ loaded = Idle
    /\ ParseUnused /\ UpdateUnused /\ DiffUnused /\ RenderUnused /\ SerdeUnused /\ SendUnused

\* xdiff run: DiffConfig::try_load(&config_file)
DiffConfigTryLoad ==
    /\ loaded = Idle /\ file.kind = "xdiff"
    /\ loaded' \in DiffConfig_try_load(file.doc)
    /\ UNCHANGED <<file, parseVars, updateVars, diffVars, renderVars, serdeVars, sendVars>>

\* xreq run: RequestConfig::try_load(&config_file)
RequestConfigTryLoad ==
    /\ loaded = Idle /\ file.kind = "xreq"
    /\ loaded' \in RequestConfig_try_load(file.doc)
    /\ UNCHANGED <<file, parseVars, updateVars, diffVars, renderVars, serdeVars, sendVars>>

NextLoad == DiffConfigTryLoad \/ RequestConfigTryLoad

SpecLoad == InitLoad /\ [][NextLoad]_vars

\* a request section whose params is there and is not a mapping
BadParams(raw) == Has(raw, "params") /\ raw["params"].t # "object"

\* some request of some profile of the file has such a params
FileHasBadParams ==
    \E n \in DOMAIN file.doc :
        IF file.kind = "xdiff"
        THEN BadParams(file.doc[n]["request1"]) \/ BadParams(file.doc[n]["request2"])
        ELSE BadParams(file.doc[n])

\* every section of the file has the fields serde requires
FileDeserializes ==
    IF file.kind = "xdiff" THEN DeDiffConfig(file.doc).st = "ok"
    ELSE DeRequestConfig(file.doc).st = "ok"

\* C9: a file in which any request of any profile has a params that is not
\* an object does not load: no config is returned, and when the file is
\* otherwise well-formed the error is the params error; a config that is
\* returned has an object as params in every request.
LoadValidatesEveryProfile ==
    loaded # Idle =>
        /\ FileHasBadParams => loaded.st = "err"
        /\ (FileHasBadParams /\ FileDeserializes) =>
              loaded.msg = "params must be an object in profile"
        /\ loaded.st = "ok" =>
              \A n \in DOMAIN loaded.val :
                  IF file.kind = "xdiff"
                  THEN /\ is_object(loaded.val[n].request1.params)
                       /\ is_object(loaded.val[n].request2.params)
                  ELSE is_object(loaded.val[n].params)

\* two xdiff profiles, p well-formed and q with `params: ~` in request2
\* only: the load has failed on q
LoadValidatesWitness ==
    /\ loaded # Idle /\ loaded.st = "err"
    /\ file.kind = "xdiff" /\ DOMAIN file.doc = {"p", "q"}
    /\ ~BadParams(file.doc["p"]["request1"]) /\ ~BadParams(file.doc["p"]["request2"])
    /\ ~BadParams(file.doc["q"]["request1"]) /\ BadParams(file.doc["q"]["request2"])
    /\ loaded = ParamsNotObject("q")

\* the fields without a default (url; request1 and request2) are in every
\* section of the file
RequiredFieldsPresent ==
    \A n \in DOMAIN file.doc :
        IF file.kind = "xdiff"
        THEN /\ Has(file.doc[n], "request1") /\ Has(file.doc[n]["request1"], "url")
             /\ Has(file.doc[n], "request2") /\ Has(file.doc[n]["request2"], "url")
        ELSE Has(file.doc[n], "url")

\* a loaded request holds the default of every field its section omits
OmittedAreDefault(raw, ctx) ==
    /\ ~Has(raw, "method") => ctx.method = "GET"
    /\ ~Has(raw, "params") => ctx.params = JObj(EmptyMap)
    /\ ~Has(raw, "headers") => ctx.headers = <<>>
    /\ ~Has(raw, "body") => ctx.body = None
    /\ ~Has(raw, "user_agent") => ctx.user_agent = None

\* a loaded profile holds the empty list when skip_headers is omitted, with
\* or without a response section around it
SkipHeadersDefault(raw, ctx) ==
    (~Has(raw, "response") \/ ~Has(raw["response"], "skip_headers"))
        => ctx.response.skip_headers = <<>>

\* C11: a file that gives every url and no non-object params loads, whatever
\* other fields it omits (skip_headers inside a response section included),
\* and each omitted field holds its default: method GET, params {}, headers
\* empty, body and user_agent absent, skip_headers empty.
OmittedFieldsDefaultAtLoad ==
    (loaded # Idle /\ RequiredFieldsPresent /\ ~FileHasBadParams) =>
        /\ loaded.st = "ok"
        /\ \A n \in DOMAIN file.doc :
              IF file.kind = "xdiff"
              THEN /\ OmittedAreDefault(file.doc[n]["request1"], loaded.val[n].request1)
                   /\ OmittedAreDefault(file.doc[n]["request2"], loaded.val[n].request2)
                   /\ SkipHeadersDefault(file.doc[n], loaded.val[n])
              ELSE OmittedAreDefault(file.doc[n], loaded.val[n])

(***************************************************************************)
(* The serde round trip of a DiffContext: serde_yaml::to_string in         *)
(* `xdiff parse`, serde_yaml::from_str in try_load                         *)
(***************************************************************************)
\* the request contexts a program run can hold (loaded and validated, or
\* built from a URL): params an object, body absent or a non-null value
TypedRequests ==
    {RequestContext(m, Url, p, h, b, ua) :
        m \in {"GET", "POST"},
        p \in {JObj(EmptyMap), ObjA},
        h \in HeadersChoices,
        b \in {None, Some(ObjA), Some(JStr(<<"0">>))},
        ua \in {None, Some(<<"u", "a">>)}}

TypedProfiles ==
    {DiffContext(r1, r2, ResponseContext(sk)) :
        r1 \in TypedRequests, r2 \in TypedRequests, sk \in SkipChoices}

InitSerde ==
    /\ profile \in TypedProfiles
    /\ yaml = Idle /\ reparsed = Idle
    /\ ParseUnused /\ UpdateUnused /\ DiffUnused /\ RenderUnused /\ LoadUnused /\ SendUnused

\* xdiff parse: serde_yaml::to_string(&config)
Serialize ==
    /\ yaml = Idle
    /\ yaml' = [st |-> "ok", doc |-> SerDiffContext(profile)]
    /\ UNCHANGED <<profile, reparsed, parseVars, updateVars, diffVars, renderVars, loadVars, sendVars>>

\* try_load: serde_yaml::from_str(&file) on what was written
Deserialize ==
    /\ yaml # Idle /\ reparsed = Idle
    /\ reparsed' = DeDiffContext(yaml.doc)
    /\ UNCHANGED <<profile, yaml, parseVars, updateVars, diffVars, renderVars, loadVars, sendVars>>

NextSerde == Serialize \/ Deserialize

SpecSerde == InitSerde /\ [][NextSerde]_vars

\* C10: a DiffContext that is serialized and parsed back comes out with the
\* same method, url, params, headers, body and user_agent in both requests
\* and the same skip_headers, whether or not its fields were written.
RoundTripKeepsFields ==
    reparsed # Idle =>
        /\ reparsed.st = "ok"
        /\ \A r \in {"request1", "request2"} :
              /\ reparsed.val[r].method = profile[r].method
              /\ reparsed.val[r].url = profile[r].url
              /\ reparsed.val[r].params = profile[r].params
              /\ reparsed.val[r].headers = profile[r].headers
              /\ reparsed.val[r].body = profile[r].body
              /\ reparsed.val[r].user_agent = profile[r].user_agent
        /\ reparsed.val.response.skip_headers = profile.response.skip_headers

\* a profile of defaults only: nothing but the two urls was written, and it
\* came back equal
RoundTripWitness ==
    /\ reparsed # Idle /\ reparsed.st = "ok"
    /\ DOMAIN yaml.doc = {"request1", "request2"}
    /\ DOMAIN yaml.doc["request1"] = {"url"}
    /\ DOMAIN yaml.doc["request2"] = {"url"}
    /\ profile.request1.params = JObj(EmptyMap)
    /\ profile.request1.method = "GET"
    /\ profile.response.skip_headers = <<>>
    /\ reparsed.val = profile

(***************************************************************************)
(* requester: RequestContext::send and DiffContext::diff                   *)
(***************************************************************************)
\* how many distinct responses the servers may give
MaxResponses == 2

\* http::header::CONTENT_TYPE
CONTENT_TYPE == <<"c", "o", "n", "t", "e", "n", "t", "-", "t", "y", "p", "e">>

\* "application/json"
APPLICATION_JSON == <<"a", "p", "p", "l", "i", "c", "a", "t", "i", "o", "n", "/", "j", "s", "o", "n">>

\* const USER_AGENT
USER_AGENT == "Requester/0.1.0"

\* content-type values a profile may give; the last holds a character outside
\* ASCII, which HeaderValue accepts as an opaque octet
Utf8Json == APPLICATION_JSON \o <<";", " ", "c", "h", "a", "r", "s", "e", "t", "=", "u", "t", "f", "-", "8">>

TextPlain == <<"t", "e", "x", "t", "/", "p", "l", "a", "i", "n">>

TextWithJsonParam == TextPlain \o <<";", "x", "=">> \o APPLICATION_JSON

OpaqueChars == {"U+00E9"}

OpaqueValue == <<"t", "U+00E9">>

ContentTypes == {APPLICATION_JSON, Utf8Json, TextPlain, TextWithJsonParam, OpaqueValue}

\* Url as the parts send looks at
UrlOf(scheme) == [scheme |-> scheme, rest |-> "//h/"]

Schemes == {"http", "https", "ftp"}

\* HeaderMap::get: the first value held under the name
HeaderGet(h, name) ==
    IF name \notin HeaderNames(h) THEN None
    ELSE Some(h[CHOOSE i \in 1..Len(h) :
                    h[i][1] = name /\ \A j \in 1..(i - 1) : h[j][1] # name][2])

\* HeaderValue::to_str: only visible ASCII
to_str(value) ==
    IF \E i \in 1..Len(value) : value[i] \in OpaqueChars \cup ControlChars
    THEN Err("ToStrError") ELSE Ok(value)

\* str::contains
contains(str, pat) ==
    \E i \in 1..(Len(str) - Len(pat) + 1) : SubSeq(str, i, i + Len(pat) - 1) = pat

\* serde_json::to_string: the compact form, keys in the map's order
RECURSIVE Compact(_), CompactEntries(_, _, _)
Compact(v) ==
    CASE v.t = "number" -> v.n
      [] v.t = "string" -> Quote(v.s)
      [] v.t = "object" ->
            <<"{">> \o CompactEntries(v.m, SortedKeys(DOMAIN v.m), TRUE) \o <<"}">>

CompactEntries(m, keys, first) ==
    IF keys = <<>> THEN <<>>
    ELSE (IF first THEN <<>> ELSE <<",">>)
         \o Quote(Head(keys)) \o <<":">> \o Compact(m[Head(keys)])
         \o CompactEntries(m, Tail(keys), FALSE)

to_string(v) == Compact(v)

\* serde_qs::to_string of an object of strings: key=value pairs joined by &
RECURSIVE QsPairs(_, _, _)
QsPairs(m, keys, first) ==
    IF keys = <<>> THEN <<>>
    ELSE (IF first THEN <<>> ELSE <<"&">>)
         \o Head(keys) \o <<"=">> \o m[Head(keys)].s
         \o QsPairs(m, Tail(keys), FALSE)

serde_qs_to_string(params) == QsPairs(params.m, SortedKeys(DOMAIN params.m), TRUE)

\* what the reqwest builder holds when send() is called on it
HttpRequest(method, url, query, headers, body, user_agent) ==
    [method |-> method, url |-> url, query |-> query, headers |-> headers,
     body |-> body, user_agent |-> user_agent]

\* RequestBuilder::json: the content-type is set unless there is one already
builder_json(headers) ==
    IF CONTENT_TYPE \in HeaderNames(headers) THEN headers
    ELSE Append(headers, <<CONTENT_TYPE, APPLICATION_JSON>>)

\* the test on an explicit content-type
content_type_ok(content_type) == contains(content_type, APPLICATION_JSON)

\* the arm "http" | "https" of the match on url.scheme()
scheme_ok(scheme) == scheme \in {"http", "https"}

\* RequestContext::send up to builder.send(): the request handed to the
\* client, or the error returned, or the panic of the unwrap
send(self) ==
    LET user_agent == IF self.user_agent = None THEN USER_AGENT ELSE self.user_agent.v
        qs == serde_qs_to_string(self.params)
        plain == HttpRequest(self.method, self.url, qs, self.headers, None, user_agent)
        json == [plain EXCEPT !.headers = builder_json(self.headers),
                              !.body = Some(to_string(self.body.v))]
    IN IF ~scheme_ok(self.url.scheme) THEN Err("unsupported scheme")
       ELSE IF self.body = None THEN Ok(plain)
       ELSE LET content_type == HeaderGet(self.headers, CONTENT_TYPE) IN
            IF content_type = None THEN Ok(json)
            ELSE IF to_str(content_type.v).st = "err"
                 THEN Panic("called Result::unwrap() on an Err value: ToStrError")
            ELSE IF content_type_ok(content_type.v) THEN Ok(json)
            ELSE Err("unsupported content-type")

\* the responses the two servers may give
ResponsePool ==
    <<Response("HTTP/1.1", <<"2", "0", "0">>, <<>>, <<"1">>),
      Response("HTTP/1.1", <<"4", "0", "4">>, <<>>, <<"1">>),
      Response("HTTP/1.1", <<"2", "0", "0">>, << <<<<"a">>, <<"1">>>> >>, <<"2">>),
      Response("HTTP/1.1", <<"2", "0", "0">>, <<>>, <<"a">>)>>

Responses == {ResponsePool[i] : i \in 1..MaxResponses}

\* builder.send().await: a response, or the client's error
TransportResults == {Ok(res) : res \in Responses} \cup {Err("error sending request")}

\* the headers of a profile's request: none, another header, a content-type
SendHeaders ==
    {<<>>, << <<<<"z">>, <<"0">>>> >>}
        \cup {<< <<CONTENT_TYPE, ct>> >> : ct \in ContentTypes}
        \cup {<< <<CONTENT_TYPE, TextPlain>>, <<CONTENT_TYPE, APPLICATION_JSON>> >>}

SendContexts ==
    {RequestContext("GET", UrlOf(sc), p, h, b, ua) :
        sc \in Schemes, p \in {ObjA}, h \in SendHeaders,
        b \in {None, Some(ObjA)}, ua \in {None}}
    \cup {RequestContext("POST", UrlOf("https"), JObj(EmptyMap), h, Some(JStr(<<"a">>)),
                         Some("ua")) : h \in SendHeaders}

SecondContexts ==
    {RequestContext("GET", UrlOf(sc), JObj(EmptyMap), h, b, None) :
        sc \in {"http", "ftp"},
        h \in {<<>>, << <<CONTENT_TYPE, APPLICATION_JSON>> >>, << <<CONTENT_TYPE, TextPlain>> >>},
        b \in {None, Some(ObjA)}}

\* the place of the run in diff()
At(label) == [st |-> label]

InitSend ==
    /\ job \in {DiffContext(r1, r2, ResponseContext(<<>>)) :
                    r1 \in SendContexts, r2 \in SecondContexts}
    /\ pc = At("request1")
    /\ issued = <<>> /\ got = <<>> /\ outcome = Idle
    /\ ParseUnused /\ UpdateUnused /\ DiffUnused /\ RenderUnused /\ LoadUnused /\ SerdeUnused

\* a slip: the run goes on after a failure
question_mark_ignore(r, then) == then

\* the ? operator: where the run stands after the result r
question_mark(r, then) == IF r.st = "ok" THEN then ELSE "done"

\* self.request1.send(), up to the request being handed to the client
Request1Send ==
    /\ pc.st = "request1"
    /\ LET r == send(job.request1) IN
          /\ issued' = IF r.st = "ok"
                       THEN Append(issued, [of |-> "request1", req |-> r.val]) ELSE issued
          /\ outcome' = IF r.st = "ok" THEN outcome ELSE r
          /\ pc' = At(question_mark(r, "await1"))
    /\ UNCHANGED <<job, got, parseVars, updateVars, diffVars, renderVars, loadVars, serdeVars>>

\* builder.send().await? of request1
Request1Done ==
    /\ pc.st = "await1"
    /\ \E r \in TransportResults :
          /\ got' = IF r.st = "ok" THEN Append(got, r.val) ELSE got
          /\ outcome' = IF r.st = "ok" THEN outcome ELSE r
          /\ pc' = At(question_mark(r, "request2"))
    /\ UNCHANGED <<job, issued, parseVars, updateVars, diffVars, renderVars, loadVars, serdeVars>>

\* self.request2.send(), up to the request being handed to the client
Request2Send ==
    /\ pc.st = "request2"
    /\ LET r == send(job.request2) IN
          /\ issued' = IF r.st = "ok"
                       THEN Append(issued, [of |-> "request2", req |-> r.val]) ELSE issued
          /\ outcome' = IF r.st = "ok" THEN outcome ELSE r
          /\ pc' = At(question_mark(r, "await2"))
    /\ UNCHANGED <<job, got, parseVars, updateVars, diffVars, renderVars, loadVars, serdeVars>>

\* builder.send().await? of request2
Request2Done ==
    /\ pc.st = "await2"
    /\ \E r \in TransportResults :
          /\ got' = IF r.st = "ok" THEN Append(got, r.val) ELSE got
          /\ outcome' = IF r.st = "ok" THEN outcome ELSE r
          /\ pc' = At(question_mark(r, "diff_response"))
    /\ UNCHANGED <<job, issued, parseVars, updateVars, diffVars, renderVars, loadVars, serdeVars>>

\* self.diff_response(res1, res2).await: the DiffResult, or the error of
\* reading a body
DiffResponseDone ==
    /\ pc.st = "diff_response"
    /\ outcome' \in {Ok(diff_response(job.response.skip_headers, got[1], got[2]).result),
                     Err("error decoding response body")}
    /\ pc' = At("done")
    /\ UNCHANGED <<job, issued, got, parseVars, updateVars, diffVars, renderVars, loadVars,
                   serdeVars>>

NextSend ==
    \/ Request1Send \/ Request1Done
    \/ Request2Send \/ Request2Done
    \/ DiffResponseDone

SpecSend == InitSend /\ [][NextSend]_vars

\* send() has run for request n of the profile
SendHasRun(n) ==
    IF n = "request1" THEN pc.st # "request1"
    ELSE Len(got) >= 1 /\ pc.st # "request2"

\* the requests handed to the client for request n
IssuedFor(n) == {issued[i].req : i \in {j \in 1..Len(issued) : issued[j].of = n}}

\* a media type proper (what precedes any ;parameter) that is application/json
IsJsonMediaType(value) ==
    LET semi == IndexOf(value, ";")
    IN (IF semi = 0 THEN value ELSE SubSeq(value, 1, semi - 1)) = APPLICATION_JSON

\* C12: send hands a request to the client only for an http or https URL
\* and, with a body, only when the headers have no content-type or a JSON
\* media type; another scheme ends in the unsupported-scheme error and a
\* body under a non-JSON content-type in the unsupported-content-type error,
\* nothing being sent; an accepted body goes out as its JSON text, under
\* content-type application/json when none was given.
SendOnlySupported ==
    pc.st # "idle" =>
    \A n \in {"request1", "request2"} :
        SendHasRun(n) =>
            LET ctx == job[n]
                content_type == HeaderGet(ctx.headers, CONTENT_TYPE)
                json_ok == content_type = None \/ IsJsonMediaType(content_type.v)
                supported == ctx.url.scheme \in {"http", "https"}
            IN /\ IssuedFor(n) # {} => supported /\ (ctx.body # None => json_ok)
               /\ ~supported =>
                     IssuedFor(n) = {} /\ outcome = Err("unsupported scheme")
               /\ (supported /\ ctx.body # None /\ ~json_ok) =>
                     IssuedFor(n) = {} /\ outcome = Err("unsupported content-type")
               /\ \A req \in IssuedFor(n) :
                     ctx.body # None =>
                        /\ req.body # None
                        /\ from_str(req.body.v) = Ok(ctx.body.v)
                        /\ content_type = None =>
                              HeaderGet(req.headers, CONTENT_TYPE) = Some(APPLICATION_JSON)

\* C13: in one diff() the requests go out in order and at most once each:
\* request2 is handed to the client only after request1 was handed over and
\* answered; when request1 fails nothing of request2 is sent and the run has
\* ended with that failure and no DiffResult; a failure of request2 ends the
\* run the same way; a DiffResult comes only after both responses.
RequestsStrictlyOrdered ==
    pc.st # "idle" =>
        /\ Len(issued) <= 2
        /\ \A i \in 1..Len(issued) :
              issued[i].of = (IF i = 1 THEN "request1" ELSE "request2")
        /\ Len(got) <= Len(issued)
        /\ Len(issued) = 2 => Len(got) >= 1
        /\ outcome # Idle => pc.st = "done"
        /\ (outcome # Idle /\ outcome.st # "ok" /\ Len(got) = 0) => IssuedFor("request2") = {}
        /\ (outcome # Idle /\ outcome.st = "ok") =>
              /\ Len(issued) = 2 /\ Len(got) = 2
              /\ outcome.val.tag \in {"Equal", "Diff"}
        /\ pc.st = "done" => outcome # Idle

\* request1 was sent and the client failed: the run is over, request2 never
\* went out
RequestsOrderedWitness ==
    /\ pc.st = "done"
    /\ Len(issued) = 1 /\ issued[1].of = "request1"
    /\ got = <<>>
    /\ outcome = Err("error sending request")
    /\ send(job.request2).st = "ok"

====
